---- MODULE Spec2Model ----
(***************************************************************************)
(* Model of the request-execution core of caselongo/strava-go:             *)
(*   - RateLimit (the quota tracker): ExceededAndClaim, Unclaim,           *)
(*     FractionReached, updateRateLimits, clear, guarded by a sync.RWMutex *)
(*   - Client.runRequestWithErrorHandler (the request executor)            *)
(* Callers are goroutines. A method of RateLimit that mutates the struct   *)
(* while holding only the read lock is modelled at the granularity of its  *)
(* memory accesses, so that the interleavings the read lock permits are    *)
(* behaviours of the model.                                                *)
(***************************************************************************)
EXTENDS Integers, Sequences, FiniteSets, TLC

VARIABLES
    rl,       \* the RateLimit struct (without its lock)
    readers,  \* callers holding rl.lock for reading
    writer,   \* the caller holding rl.lock for writing, or NoCaller
    now,      \* the wall clock, in seconds (time.Now())
    calls,    \* number of top-level calls started so far
    pc,       \* the position of each caller
    fr        \* the locals of each caller

vars == <<rl, readers, writer, now, calls, pc, fr>>

----------------------------------------------------------------------------
(* Bounds of the model *)

MaxTicks == 2

MaxCalls == 2

MaxAttempts == 2

Callers == {"g1", "g2"}

NoCaller == "none"

\* The clock starts on day 1 at 23:30:10 UTC and advances by the length of
\* a short window: the first advance crosses a 15-minute boundary, the
\* second crosses midnight.
StartTime == 86400 + 23 * 3600 + 30 * 60 + 10

TickStep == 15 * 60

----------------------------------------------------------------------------
(* Program constants *)

windowShortMinutes == 15

StatusTooManyRequests == 429

----------------------------------------------------------------------------
(* time.Time accessors in UTC, on a clock counted in seconds *)

Hour(t) == (t \div 3600) % 24

Minute(t) == (t \div 60) % 60

Second(t) == t % 60

\* fmt.Sprintf("%v-%v", nowUtc.Hour(), minute-minute%windowShortMinutes):
\* the pair (hour, bucket); "" is the empty tuple.
currentWindowShort(t) == <<Hour(t), Minute(t) - (Minute(t) % windowShortMinutes)>>

\* nowUtc.Format("2006-01-02"): the calendar day; "" is the empty tuple.
currentWindowLong(t) == <<"day", t \div 86400>>

EmptyString == <<>>

----------------------------------------------------------------------------
(* strings.Split and strconv.Atoi on strings given as tuples of characters *)

Digits == {"0", "1", "2", "3", "4", "5", "6", "7", "8", "9"}

DigitVal(ch) ==
    CASE ch = "0" -> 0 [] ch = "1" -> 1 [] ch = "2" -> 2 [] ch = "3" -> 3
      [] ch = "4" -> 4 [] ch = "5" -> 5 [] ch = "6" -> 6 [] ch = "7" -> 7
      [] ch = "8" -> 8 [] ch = "9" -> 9

RECURSIVE SplitFrom(_, _, _)
\* Fields of s from position i on, cur being the field read so far.
SplitFrom(s, i, cur) ==
    IF i > Len(s) THEN <<cur>>
    ELSE IF s[i] = "," THEN <<cur>> \o SplitFrom(s, i + 1, <<>>)
    ELSE SplitFrom(s, i + 1, Append(cur, s[i]))

\* strings.Split(s, ","): always at least one field.
Split(s) == SplitFrom(s, 1, <<>>)

RECURSIVE DigitsValue(_, _, _)
DigitsValue(s, i, acc) ==
    IF i > Len(s) THEN acc ELSE DigitsValue(s, i + 1, acc * 10 + DigitVal(s[i]))

\* strconv.Atoi: an optional sign followed by one or more decimal digits;
\* anything else is a syntax error and yields 0.
Atoi(s) ==
    LET signed == Len(s) > 0 /\ s[1] \in {"+", "-"}
        body == IF signed THEN SubSeq(s, 2, Len(s)) ELSE s
        okay == Len(body) > 0 /\ \A i \in 1..Len(body) : body[i] \in Digits
        mag == IF okay THEN DigitsValue(body, 1, 0) ELSE 0
    IN  [err |-> ~okay,
         val |-> IF signed /\ s[1] = "-" THEN 0 - mag ELSE mag]

----------------------------------------------------------------------------
(* http.Header *)

\* textproto.CanonicalMIMEHeaderKey on the keys the program uses: the first
\* letter and each letter after a hyphen upper case, the rest lower case.
CanonicalMIMEHeaderKey(k) ==
    CASE k = "X-ReadRatelimit-Limit" -> "X-Readratelimit-Limit"
      [] k = "X-ReadRatelimit-Usage" -> "X-Readratelimit-Usage"
      [] OTHER -> k

\* Header.Get: the value stored under the canonical key, "" when absent.
HeaderGet(h, k) ==
    IF CanonicalMIMEHeaderKey(k) \in DOMAIN h
    THEN h[CanonicalMIMEHeaderKey(k)] ELSE EmptyString

----------------------------------------------------------------------------
(* The RateLimit struct and its methods *)

\* RequestTime is only ever tested with IsZero: it is kept as the zero
\* time.Time or as a time.Now(), which is never zero.
ZeroTime == "zero"

SomeTime == "time.Now()"

\* &RateLimit{}: every field at its zero value.
NewRateLimit ==
    [RequestTime |-> ZeroTime, WindowShort |-> EmptyString, WindowLong |-> EmptyString,
     LimitShort |-> 0, LimitLong |-> 0, UsageShort |-> 0, UsageLong |-> 0,
     UsageClaimed |-> 0]

\* The struct of TestRateLimitExceeded before its first call: the short
\* window over its limit, the long window with room.
ShortExceededLiteral ==
    [NewRateLimit EXCEPT !.LimitLong = 1, !.UsageLong = 0,
                         !.LimitShort = 100, !.UsageShort = 200]

\* The struct of TestRateLimitExceeded before its third call: the short
\* window with room, the long window over its limit.
LongExceededLiteral ==
    [NewRateLimit EXCEPT !.LimitShort = 1, !.UsageShort = 0,
                         !.LimitLong = 100, !.UsageLong = 200]

\* The structs a tracker starts from: NewClient's &RateLimit{} and the
\* literals of the package's tests.
StructLiterals == {NewRateLimit, ShortExceededLiteral, LongExceededLiteral}

\* Mutant of clear: the claims are zeroed with the rest.
clearWithClaimed(r) ==
    [r EXCEPT !.RequestTime = ZeroTime, !.WindowShort = EmptyString,
              !.WindowLong = EmptyString, !.LimitShort = 0, !.LimitLong = 0,
              !.UsageShort = 0, !.UsageLong = 0, !.UsageClaimed = 0]

\* rl.clear(): UsageClaimed is not touched.
clear(r) ==
    [r EXCEPT !.RequestTime = ZeroTime, !.WindowShort = EmptyString,
              !.WindowLong = EmptyString, !.LimitShort = 0, !.LimitLong = 0,
              !.UsageShort = 0, !.UsageLong = 0]

\* The body of updateRateLimits between Lock and Unlock, on header h. Each Atoi result is assigned to its field before the error is
\* looked at; s[1] of a value without a comma is an index out of range, a
\* run-time panic that leaves the fields assigned so far.
updateRateLimits(r, h) ==
    LET lim == HeaderGet(h, "X-ReadRatelimit-Limit")
        use == HeaderGet(h, "X-ReadRatelimit-Usage")
        sl == Split(lim)
        su == Split(use)
        r1 == [r EXCEPT !.LimitShort = Atoi(sl[1]).val]
        r2 == [r1 EXCEPT !.LimitLong = Atoi(sl[2]).val]
        r3 == [r2 EXCEPT !.UsageShort = Atoi(su[1]).val]
        r4 == [r3 EXCEPT !.UsageLong = Atoi(su[2]).val]
    IN  IF lim = EmptyString \/ use = EmptyString
            THEN [rl |-> clear(r), panic |-> FALSE]
        ELSE IF Atoi(sl[1]).err THEN [rl |-> clear(r1), panic |-> FALSE]
        ELSE IF Len(sl) < 2 THEN [rl |-> r1, panic |-> TRUE]
        ELSE IF Atoi(sl[2]).err THEN [rl |-> clear(r2), panic |-> FALSE]
        ELSE IF Atoi(su[1]).err THEN [rl |-> clear(r3), panic |-> FALSE]
        ELSE IF Len(su) < 2 THEN [rl |-> r3, panic |-> TRUE]
        ELSE IF Atoi(su[2]).err THEN [rl |-> clear(r4), panic |-> FALSE]
        ELSE [rl |-> [r4 EXCEPT !.RequestTime = SomeTime], panic |-> FALSE]

\* Mutant of RollShort: the key is renewed and the usage is kept.
RollShortKeepUsage(r, t) ==
    IF currentWindowShort(t) # r.WindowShort
    THEN [r EXCEPT !.WindowShort = currentWindowShort(t)]
    ELSE r

\* ExceededAndClaim, lines 45-48: the short window's rollover at time t.
RollShort(r, t) ==
    IF currentWindowShort(t) # r.WindowShort
    THEN [r EXCEPT !.WindowShort = currentWindowShort(t), !.UsageShort = 0]
    ELSE r

\* ExceededAndClaim, lines 50-53: the long window's rollover at time t.
RollLong(r, t) ==
    IF currentWindowLong(t) # r.WindowLong
    THEN [r EXCEPT !.WindowLong = currentWindowLong(t), !.UsageLong = 0]
    ELSE r

\* Mutant of ExceededWait: the limits are compared whether or not
\* RequestTime is zero.
ExceededWaitNoZeroTest(r, t) ==
    IF r.UsageShort + r.UsageClaimed >= r.LimitShort
    THEN 5 + windowShortMinutes * 60
           - ((Minute(t) * 60 + Second(t)) % (windowShortMinutes * 60))
    ELSE IF r.UsageLong + r.UsageClaimed >= r.LimitLong
    THEN 5 + 24 * 60 * 60 - (Hour(t) * 60 * 60 + Minute(t) * 60 + Second(t))
    ELSE 0

\* Mutant of ExceededWait: the long window is compared first.
ExceededWaitLongFirst(r, t) ==
    IF r.RequestTime # ZeroTime
    THEN IF r.UsageLong + r.UsageClaimed >= r.LimitLong
         THEN 5 + 24 * 60 * 60
                - (Hour(t) * 60 * 60 + Minute(t) * 60 + Second(t))
         ELSE IF r.UsageShort + r.UsageClaimed >= r.LimitShort
         THEN 5 + windowShortMinutes * 60
                - ((Minute(t) * 60 + Second(t)) % (windowShortMinutes * 60))
         ELSE 0
    ELSE 0

\* Mutant of ExceededWait: a denial returns the seconds gone by in the
\* window, which is 0 on a window boundary.
ExceededWaitElapsed(r, t) ==
    IF r.RequestTime # ZeroTime
    THEN IF r.UsageShort + r.UsageClaimed >= r.LimitShort
         THEN (Minute(t) * 60 + Second(t)) % (windowShortMinutes * 60)
         ELSE IF r.UsageLong + r.UsageClaimed >= r.LimitLong
         THEN Hour(t) * 60 * 60 + Minute(t) * 60 + Second(t)
         ELSE 0
    ELSE 0

\* ExceededAndClaim, lines 55-62: the seconds to wait, 0 when the claim
\* goes ahead.
ExceededWait(r, t) ==
    IF r.RequestTime # ZeroTime
    THEN IF r.UsageShort + r.UsageClaimed >= r.LimitShort
         THEN 5 + windowShortMinutes * 60
                - ((Minute(t) * 60 + Second(t)) % (windowShortMinutes * 60))
         ELSE IF r.UsageLong + r.UsageClaimed >= r.LimitLong
         THEN 5 + 24 * 60 * 60
                - (Hour(t) * 60 * 60 + Minute(t) * 60 + Second(t))
         ELSE 0
    ELSE 0

(* float32 values: a quotient n/d with d > 0, or NaN, +Inf, -Inf.  The     *)
(* quotient of two ints below 2^24 is the correctly rounded n/d, and        *)
(* rounding is monotone, so comparing the exact quotients picks the same    *)
(* float32 result as comparing the rounded ones.                            *)
F32(kind, n, d) == [kind |-> kind, n |-> n, d |-> d]

NaN == F32("NaN", 0, 0)

PosInf == F32("+Inf", 0, 0)

NegInf == F32("-Inf", 0, 0)

\* float32(u) / float32(l)
F32Div(u, l) ==
    IF l = 0 THEN (IF u = 0 THEN NaN ELSE IF u > 0 THEN PosInf ELSE NegInf)
    ELSE IF l > 0 THEN F32("num", u, l) ELSE F32("num", 0 - u, 0 - l)

\* a > b on float32: false whenever either side is NaN.
F32Greater(a, b) ==
    IF a.kind = "NaN" \/ b.kind = "NaN" THEN FALSE
    ELSE IF a.kind = "+Inf" THEN b.kind # "+Inf"
    ELSE IF a.kind = "-Inf" THEN FALSE
    ELSE IF b.kind = "+Inf" THEN FALSE
    ELSE IF b.kind = "-Inf" THEN TRUE
    ELSE a.n * b.d > b.n * a.d

\* FractionReached, lines 76-83.
FractionReached(r) ==
    LET shortLimitFraction == F32Div(r.UsageShort, r.LimitShort)
        longLimitFraction == F32Div(r.UsageLong, r.LimitLong)
    IN  IF F32Greater(shortLimitFraction, longLimitFraction)
        THEN shortLimitFraction ELSE longLimitFraction

----------------------------------------------------------------------------
(* Responses of the server *)

LimitKey == "X-Readratelimit-Limit"
UsageKey == "X-Readratelimit-Usage"

\* Header sets a response can carry, keys in canonical form as net/http
\* stores them.
HdrRoom == (LimitKey :> <<"2", ",", "3">>) @@ (UsageKey :> <<"0", ",", "1">>)

HdrTight == (LimitKey :> <<"1", ",", "3">>) @@ (UsageKey :> <<"0", ",", "1">>)

HdrShortFull == (LimitKey :> <<"1", ",", "3">>) @@ (UsageKey :> <<"2", ",", "1">>)

HdrLongFull == (LimitKey :> <<"2", ",", "3">>) @@ (UsageKey :> <<"0", ",", "3">>)

\* The pair of headers of TestRateLimitUpdating, and no other.
HdrPlain ==
    ("X-Ratelimit-Limit" :> <<"2", ",", "3">>) @@
    ("X-Ratelimit-Usage" :> <<"1", ",", "1">>)

\* A non-integer field.
HdrNonsense == (LimitKey :> <<"2", ",", "x">>) @@ (UsageKey :> <<"z">>)

\* A value without the second field.
HdrOneField == (LimitKey :> <<"2">>) @@ (UsageKey :> <<"0", ",", "1">>)

HdrNone == <<>>

Headers ==
    {HdrRoom, HdrTight, HdrShortFull, HdrLongFull, HdrPlain, HdrNonsense,
     HdrOneField, HdrNone}

\* resp.StatusCode: one status of each class the code tells apart, and one
\* on each side of the classes it names.
Statuses == {101, 200, 302, 404, StatusTooManyRequests, 500, 600}

\* The statuses of a response that httpClient.Do returns with an error.
RedirectStatuses == {st \in Statuses : st \div 100 = 3}

\* The statuses on which defaultErrorHandler decodes the body.
DecodedStatuses == {st \in Statuses : st \div 100 = 4}

----------------------------------------------------------------------------
(* Result of a request *)

NoResult == [data |-> "none", err |-> "none"]

\* defaultErrorHandler on a response with the given status, decodes telling
\* whether json.Unmarshal accepts its body: the error returned, "nil" for
\* a nil error.
defaultErrorHandler(status, decodes) ==
    IF status \div 100 = 5 THEN "server error"
    ELSE IF status \div 100 = 4
    THEN (IF decodes THEN "application error" ELSE "json error")
    ELSE IF status \div 100 = 3 THEN "redirect error"
    ELSE "nil"

\* checkResponseForErrorsWithErrorHandler with the default handler.
checkResponseForErrors(status, decodes) ==
    IF status \div 100 > 2
    THEN [data |-> "nil", err |-> defaultErrorHandler(status, decodes)]
    ELSE [data |-> "body", err |-> "nil"]

----------------------------------------------------------------------------
(* The token source and validateToken *)

\* An AuthorizationResponse as GetAuthorizationResponse returns it, err
\* telling whether it returned an error instead.
Token(e) == [err |-> FALSE, AccessToken |-> "token", ExpiresAt |-> e]

NoToken == [err |-> FALSE, AccessToken |-> "", ExpiresAt |-> 0]

SourceError == [err |-> TRUE, AccessToken |-> "", ExpiresAt |-> 0]

\* The last instant of the model's clock, in epoch seconds.
LastTime == StartTime + MaxTicks * TickStep

\* expires_at values: one second before the first instant of the clock, one
\* hour after its last instant, and that same instant counted in
\* milliseconds.
ExpiryValues == {StartTime - 1, LastTime + 3600, (LastTime + 3600) * 1000}

Tokens == {SourceError, NoToken} \cup {Token(e) : e \in ExpiryValues}

\* validateToken lines 54-68 at time t (epoch seconds): "error" for the two
\* early returns, "stored" for the return of line 65, "refresh" for the
\* call of refreshToken. time.UnixMicro(ExpiresAt * 1000) is the instant
\* ExpiresAt milliseconds after the epoch; it is compared with t + 10
\* seconds, both counted in milliseconds.
validateToken(tok, t) ==
    IF tok.err THEN "error"
    ELSE IF tok.AccessToken = "" THEN "error"
    ELSE IF tok.ExpiresAt > (t + 10) * 1000 THEN "stored"
    ELSE "refresh"

----------------------------------------------------------------------------
(* Callers *)

NoResp == [status |-> 0, header |-> HdrNone, decodes |-> FALSE]

\* The locals of a caller that is not in a call.
\*   op        the top-level call in progress
\*   tnow      nowUtc of ExceededAndClaim
\*   loaded    the value of rl.UsageClaimed read by ++ or --
\*   ret       the result of the ExceededAndClaim that has just returned
\*   entry     the struct as the tracker method in progress, or the one
\*             that has just returned, found it; after a failure of
\*             validateToken or of httpClient.Do, the struct at the failure
\*   defers    deferred Unclaim calls of runRequestWithErrorHandler
\*   wake      end of the time.Sleep in progress
\*   resp      the response of the last attempt
\*   attempts  the statuses received so far in this call
\*   result    what the call returns
\*   pre       rl.UsageClaimed when runRequestWithErrorHandler started
\*   panicking whether a run-time panic is unwinding the call
\*   frac      the result of FractionReached
\*   auths     the validateToken calls of this request that succeeded
\*   updates   the updateRateLimits calls of this request
\*   tok       what the token source gave the validateToken just made
\*   refreshed whether that validateToken called refreshToken
FrameInit ==
    [op |-> "none", tnow |-> 0, loaded |-> 0, ret |-> 0,
     entry |-> NewRateLimit, defers |-> 0, wake |-> 0, resp |-> NoResp, attempts |-> <<>>,
     result |-> NoResult, pre |-> 0, panicking |-> FALSE, frac |-> NaN,
     auths |-> 0, updates |-> 0, tok |-> NoToken, refreshed |-> FALSE]

\* sync.RWMutex: RLock goes through when no writer holds the lock and none
\* is waiting in Lock.
RLockFree == writer = NoCaller /\ \A d \in Callers : pc[d] # "upd_lock"

\* sync.RWMutex: Lock goes through when nobody holds the lock.
LockFree == writer = NoCaller /\ readers = {}

Init ==
    /\ rl \in StructLiterals
    /\ readers = {}
    /\ writer = NoCaller
    /\ now = StartTime
    /\ calls = 0
    /\ pc = [c \in Callers |-> "idle"]
    /\ fr = [c \in Callers |-> FrameInit]

\* Caller d is running a request (it is inside runRequestWithErrorHandler
\* and not asleep in its time.Sleep).
Running(d) == fr[d].op = "execute" /\ pc[d] # "exec_sleep"

\* The model explores one running request at a time, next to any number of
\* sleeping requests and of direct calls of the tracker's methods.
NoOtherRunning(c) == \A d \in Callers \ {c} : ~Running(d)

\* The wall clock advances.
Tick ==
    /\ now + TickStep <= StartTime + MaxTicks * TickStep
    /\ now' = now + TickStep
    /\ UNCHANGED <<rl, readers, writer, calls, pc, fr>>

\* A caller starts Client.run / runRequest.
StartExecute(c) ==
    /\ pc[c] = "idle"
    /\ NoOtherRunning(c)
    /\ calls < MaxCalls
    /\ calls' = calls + 1
    /\ pc' = [pc EXCEPT ![c] = "claim_enter"]
    /\ fr' = [fr EXCEPT ![c] =
                [FrameInit EXCEPT !.op = "execute", !.pre = rl.UsageClaimed]]
    /\ UNCHANGED <<rl, readers, writer, now>>

\* A caller calls ExceededAndClaim itself.
StartClaim(c) ==
    /\ pc[c] = "idle"
    /\ calls < MaxCalls
    /\ calls' = calls + 1
    /\ pc' = [pc EXCEPT ![c] = "claim_enter"]
    /\ fr' = [fr EXCEPT ![c] = [FrameInit EXCEPT !.op = "claim"]]
    /\ UNCHANGED <<rl, readers, writer, now>>

\* A caller calls updateRateLimits itself, with a response of its own, as
\* TestRateLimitUpdating does.
StartUpdate(c) ==
    /\ pc[c] = "idle"
    /\ calls < MaxCalls
    /\ calls' = calls + 1
    /\ pc' = [pc EXCEPT ![c] = "upd_lock"]
    /\ fr' = [fr EXCEPT ![c] = [FrameInit EXCEPT !.op = "update"]]
    /\ UNCHANGED <<rl, readers, writer, now>>

\* A caller calls Unclaim itself.
StartUnclaim(c) ==
    /\ pc[c] = "idle"
    /\ calls < MaxCalls
    /\ calls' = calls + 1
    /\ pc' = [pc EXCEPT ![c] = "unclaim_enter"]
    /\ fr' = [fr EXCEPT ![c] = [FrameInit EXCEPT !.op = "unclaim"]]
    /\ UNCHANGED <<rl, readers, writer, now>>

\* A caller calls FractionReached.
StartFraction(c) ==
    /\ pc[c] = "idle"
    /\ calls < MaxCalls
    /\ calls' = calls + 1
    /\ pc' = [pc EXCEPT ![c] = "frac_enter"]
    /\ fr' = [fr EXCEPT ![c] = [FrameInit EXCEPT !.op = "fraction"]]
    /\ UNCHANGED <<rl, readers, writer, now>>

\* What the caller does with the result w of ExceededAndClaim:
\* runRequestWithErrorHandler lines 205-213 sleeps on w > 0 and otherwise
\* defers one Unclaim; a direct caller is done.
AfterClaimPc(f, w) ==
    IF f.op = "execute"
    THEN (IF w > 0 THEN "exec_sleep" ELSE "exec_auth")
    ELSE "done"

AfterClaimFrame(f, w) ==
    IF f.op = "execute"
    THEN IF w > 0
         THEN [f EXCEPT !.ret = w, !.wake = now + w, !.tnow = 0, !.loaded = 0]
         ELSE [f EXCEPT !.ret = 0, !.defers = @ + 1, !.tnow = 0, !.loaded = 0]
    ELSE [f EXCEPT !.ret = w, !.tnow = 0, !.loaded = 0]

\* ExceededAndClaim lines 37-43: RLock, then time.Now().
ClaimEnter(c) ==
    /\ pc[c] = "claim_enter"
    /\ RLockFree
    /\ readers' = readers \cup {c}
    /\ fr' = [fr EXCEPT ![c] = [@ EXCEPT !.tnow = now, !.entry = rl]]
    /\ pc' = [pc EXCEPT ![c] = "claim_roll_short"]
    /\ UNCHANGED <<rl, writer, now, calls>>

\* ExceededAndClaim lines 45-48.
ClaimRollShort(c) ==
    /\ pc[c] = "claim_roll_short"
    /\ rl' = RollShort(rl, fr[c].tnow)
    /\ pc' = [pc EXCEPT ![c] = "claim_roll_long"]
    /\ UNCHANGED <<readers, writer, now, calls, fr>>

\* ExceededAndClaim lines 50-53.
ClaimRollLong(c) ==
    /\ pc[c] = "claim_roll_long"
    /\ rl' = RollLong(rl, fr[c].tnow)
    /\ pc' = [pc EXCEPT ![c] = "claim_check"]
    /\ UNCHANGED <<readers, writer, now, calls, fr>>

\* Mutant of ClaimCheck: a denial returns without the deferred RUnlock.
ClaimCheckKeepsLock(c) ==
    /\ pc[c] = "claim_check"
    /\ LET w == ExceededWait(rl, fr[c].tnow)
       IN  IF w > 0
           THEN /\ pc' = [pc EXCEPT ![c] = AfterClaimPc(fr[c], w)]
                /\ fr' = [fr EXCEPT ![c] = AfterClaimFrame(fr[c], w)]
           ELSE /\ pc' = [pc EXCEPT ![c] = "claim_load"]
                /\ fr' = fr
    /\ UNCHANGED <<rl, readers, writer, now, calls>>

\* ExceededAndClaim lines 55-62: on a denial the method returns (and the
\* deferred RUnlock runs); otherwise it goes on to the increment.
ClaimCheck(c) ==
    /\ pc[c] = "claim_check"
    /\ LET w == ExceededWait(rl, fr[c].tnow)
       IN  IF w > 0
           THEN /\ readers' = readers \ {c}
                /\ pc' = [pc EXCEPT ![c] = AfterClaimPc(fr[c], w)]
                /\ fr' = [fr EXCEPT ![c] = AfterClaimFrame(fr[c], w)]
           ELSE /\ readers' = readers
                /\ pc' = [pc EXCEPT ![c] = "claim_load"]
                /\ fr' = fr
    /\ UNCHANGED <<rl, writer, now, calls>>

\* ExceededAndClaim line 64, rl.UsageClaimed++: the read.
ClaimLoad(c) ==
    /\ pc[c] = "claim_load"
    /\ fr' = [fr EXCEPT ![c].loaded = rl.UsageClaimed]
    /\ pc' = [pc EXCEPT ![c] = "claim_store"]
    /\ UNCHANGED <<rl, readers, writer, now, calls>>

\* ExceededAndClaim lines 64-67: the write of rl.UsageClaimed++, return 0
\* and the deferred RUnlock.
ClaimStore(c) ==
    /\ pc[c] = "claim_store"
    /\ rl' = [rl EXCEPT !.UsageClaimed = fr[c].loaded + 1]
    /\ readers' = readers \ {c}
    /\ pc' = [pc EXCEPT ![c] = AfterClaimPc(fr[c], 0)]
    /\ fr' = [fr EXCEPT ![c] = AfterClaimFrame(fr[c], 0)]
    /\ UNCHANGED <<writer, now, calls>>

\* Mutant of AfterUnclaimPc: only the last deferred Unclaim runs.
AfterUnclaimPcOnce(f) == "done"

\* Where a caller goes when Unclaim returns: the next deferred Unclaim of
\* runRequestWithErrorHandler, or out of the call (by a return, or by the
\* panic that is unwinding it).
AfterUnclaimPc(f) ==
    IF f.op = "execute" /\ f.defers > 1 THEN "unclaim_enter" ELSE "done"

\* Unclaim lines 134-137: RLock and the read of rl.UsageClaimed--.
UnclaimEnter(c) ==
    /\ pc[c] = "unclaim_enter"
    /\ RLockFree
    /\ readers' = readers \cup {c}
    /\ fr' = [fr EXCEPT ![c] =
                [@ EXCEPT !.loaded = rl.UsageClaimed,
                          !.tok = NoToken, !.refreshed = FALSE]]
    /\ pc' = [pc EXCEPT ![c] = "unclaim_store"]
    /\ UNCHANGED <<rl, writer, now, calls>>

\* Unclaim lines 137-138: the write of rl.UsageClaimed-- and the deferred
\* RUnlock.
UnclaimStore(c) ==
    /\ pc[c] = "unclaim_store"
    /\ rl' = [rl EXCEPT !.UsageClaimed = fr[c].loaded - 1]
    /\ readers' = readers \ {c}
    /\ pc' = [pc EXCEPT ![c] = AfterUnclaimPc(fr[c])]
    /\ fr' = [fr EXCEPT ![c] =
                [@ EXCEPT !.loaded = 0,
                          !.defers = IF @ > 0 THEN @ - 1 ELSE 0]]
    /\ UNCHANGED <<writer, now, calls>>

\* FractionReached line 73: RLock.
FracEnter(c) ==
    /\ pc[c] = "frac_enter"
    /\ RLockFree
    /\ readers' = readers \cup {c}
    /\ pc' = [pc EXCEPT ![c] = "frac_compute"]
    /\ UNCHANGED <<rl, writer, now, calls, fr>>

\* FractionReached lines 76-83 and the deferred RUnlock.
FracCompute(c) ==
    /\ pc[c] = "frac_compute"
    /\ fr' = [fr EXCEPT ![c] =
                [@ EXCEPT !.frac = FractionReached(rl), !.entry = rl]]
    /\ readers' = readers \ {c}
    /\ pc' = [pc EXCEPT ![c] = "done"]
    /\ UNCHANGED <<rl, writer, now, calls>>

----------------------------------------------------------------------------
(* Client.runRequestWithErrorHandler *)

\* Line 209: time.Sleep(waitSeconds) is over, goto retry.
ExecWake(c) ==
    /\ pc[c] = "exec_sleep"
    /\ now >= fr[c].wake
    /\ NoOtherRunning(c)
    /\ pc' = [pc EXCEPT ![c] = "claim_enter"]
    /\ fr' = [fr EXCEPT ![c] =
                [@ EXCEPT !.wake = 0, !.ret = 0, !.entry = NewRateLimit]]
    /\ UNCHANGED <<rl, readers, writer, now, calls>>

\* Lines 215-218: validateToken on what the token source gives; a refresh
\* succeeds or fails. On an error the call returns it and the deferred
\* Unclaims run.
ExecAuth(c) ==
    /\ pc[c] = "exec_auth"
    /\ \E tok \in Tokens, refreshOk \in BOOLEAN :
         LET v == validateToken(tok, now)
         IN  /\ v # "refresh" => refreshOk
             /\ IF v = "stored" \/ (v = "refresh" /\ refreshOk)
                THEN /\ pc' = [pc EXCEPT ![c] = "exec_send"]
                     /\ fr' = [fr EXCEPT ![c] =
                                 [@ EXCEPT !.entry = NewRateLimit,
                                           !.auths = @ + 1,
                                           !.tok = tok,
                                           !.refreshed = (v = "refresh")]]
                ELSE /\ pc' = [pc EXCEPT ![c] = "unclaim_enter"]
                     /\ fr' = [fr EXCEPT ![c] =
                                 [@ EXCEPT !.entry = rl,
                                           !.tok = tok,
                                           !.refreshed = (v = "refresh"),
                                           !.result =
                                               [data |-> "nil",
                                                err |-> "validateToken error"]]]
    /\ UNCHANGED <<rl, readers, writer, now, calls>>

\* Lines 222-234: httpClient.Do fails without a response; the call returns
\* the error and the deferred Unclaims run.
ExecSendError(c) ==
    /\ pc[c] = "exec_send"
    /\ pc' = [pc EXCEPT ![c] = "unclaim_enter"]
    /\ fr' = [fr EXCEPT ![c] =
                [@ EXCEPT !.entry = rl, !.tok = NoToken, !.refreshed = FALSE,
                          !.result = [data |-> "nil",
                                      err |-> "transport error"]]]
    /\ UNCHANGED <<rl, readers, writer, now, calls>>

\* Lines 222-234: httpClient.Do yields a response and an error, which it
\* does when the redirect policy stops at a 3xx response; the status is not
\* 429, so the call returns the error and the deferred Unclaims run.
ExecSendPolicyError(c) ==
    /\ pc[c] = "exec_send"
    /\ Len(fr[c].attempts) < MaxAttempts
    /\ \E st \in RedirectStatuses :
         fr' = [fr EXCEPT ![c] =
                  [@ EXCEPT !.attempts = Append(@, st),
                            !.entry = rl,
                            !.tok = NoToken, !.refreshed = FALSE,
                            !.result = [data |-> "nil",
                                        err |-> "redirect policy error"]]]
    /\ pc' = [pc EXCEPT ![c] = "unclaim_enter"]
    /\ UNCHANGED <<rl, readers, writer, now, calls>>

\* Lines 222-238: httpClient.Do yields a response; on either branch the
\* next thing is updateRateLimits(resp), which starts with rl.lock.Lock().
ExecSendResponse(c) ==
    /\ pc[c] = "exec_send"
    /\ Len(fr[c].attempts) < MaxAttempts
    /\ \E st \in Statuses, dec \in BOOLEAN :
         /\ dec => st \in DecodedStatuses
         /\ fr' = [fr EXCEPT ![c] =
                     [@ EXCEPT !.resp = [status |-> st, header |-> HdrNone,
                                         decodes |-> dec],
                               !.tok = NoToken, !.refreshed = FALSE,
                               !.attempts = Append(@, st)]]
    /\ pc' = [pc EXCEPT ![c] = "upd_lock"]
    /\ UNCHANGED <<rl, readers, writer, now, calls>>

\* updateRateLimits line 88: Lock is granted.
UpdLock(c) ==
    /\ pc[c] = "upd_lock"
    /\ LockFree
    /\ writer' = c
    /\ pc' = [pc EXCEPT ![c] = "upd_body"]
    /\ UNCHANGED <<rl, readers, now, calls, fr>>

\* updateRateLimits lines 91-120, under the write lock. The header of the
\* response is read here for the first time, so it is drawn here.
UpdBody(c) ==
    /\ pc[c] = "upd_body"
    /\ \E h \in Headers :
         LET out == updateRateLimits(rl, h)
         IN  /\ rl' = out.rl
             /\ fr' = [fr EXCEPT ![c] =
                         [@ EXCEPT !.panicking = out.panic, !.resp.header = h,
                                   !.updates = @ + 1]]
    /\ pc' = [pc EXCEPT ![c] = "upd_unlock"]
    /\ UNCHANGED <<readers, writer, now, calls>>

\* Mutant of AfterUpdatePc: a 5xx is retried like a 429.
AfterUpdatePcRetryServerError(f) ==
    IF f.panicking THEN "unclaim_enter"
    ELSE IF f.resp.status = StatusTooManyRequests
            \/ f.resp.status \div 100 = 5 THEN "claim_enter"
    ELSE "unclaim_enter"

\* Mutant of AfterUpdatePc: a 429 ends the call like any other status.
AfterUpdatePcNoRetry(f) == "unclaim_enter"

\* Where runRequestWithErrorHandler goes when updateRateLimits is over: a
\* panic unwinds into the deferred Unclaims, a 429 goes back to retry
\* (line 227), anything else returns through the deferred Unclaims.
AfterUpdatePc(f) ==
    IF f.panicking THEN "unclaim_enter"
    ELSE IF f.resp.status = StatusTooManyRequests THEN "claim_enter"
    ELSE "unclaim_enter"

AfterUpdateFrame(f) ==
    IF f.panicking \/ f.resp.status = StatusTooManyRequests
    THEN [f EXCEPT !.resp = NoResp]
    ELSE [f EXCEPT !.resp = NoResp,
                   !.result = checkResponseForErrors(f.resp.status,
                                                     f.resp.decodes)]

\* updateRateLimits line 89: the deferred Unlock, then lines 227 or 240.
UpdUnlock(c) ==
    /\ pc[c] = "upd_unlock"
    /\ writer' = NoCaller
    /\ pc' = [pc EXCEPT ![c] = IF fr[c].op = "update" THEN "done"
                                ELSE AfterUpdatePc(fr[c])]
    /\ fr' = [fr EXCEPT ![c] = IF fr[c].op = "update"
                                THEN [fr[c] EXCEPT !.resp = NoResp]
                                ELSE AfterUpdateFrame(fr[c])]
    /\ UNCHANGED <<rl, readers, now, calls>>

\* The call is over: its caller goes on after a return, and is gone after
\* a panic.
Finish(c) ==
    /\ pc[c] = "done"
    /\ pc' = [pc EXCEPT ![c] = IF fr[c].panicking THEN "panicked" ELSE "idle"]
    /\ fr' = [fr EXCEPT ![c] = FrameInit]
    /\ UNCHANGED <<rl, readers, writer, now, calls>>

Step(c) ==
    \/ StartExecute(c)
    \/ StartClaim(c)
    \/ StartUnclaim(c)
    \/ StartUpdate(c)
    \/ StartFraction(c)
    \/ ClaimEnter(c)
    \/ ClaimRollShort(c)
    \/ ClaimRollLong(c)
    \/ ClaimCheck(c)
    \/ ClaimLoad(c)
    \/ ClaimStore(c)
    \/ UnclaimEnter(c)
    \/ UnclaimStore(c)
    \/ FracEnter(c)
    \/ FracCompute(c)
    \/ ExecWake(c)
    \/ ExecAuth(c)
    \/ ExecSendError(c)
    \/ ExecSendPolicyError(c)
    \/ ExecSendResponse(c)
    \/ UpdLock(c)
    \/ UpdBody(c)
    \/ UpdUnlock(c)
    \/ Finish(c)

\* Goroutines run concurrently.
Next ==
    \/ Tick
    \/ \E c \in Callers : Step(c)

Spec == Init /\ [][Next]_vars

\* No other caller is inside a call.
Alone(c) == \A d \in Callers \ {c} : pc[d] \in {"idle", "panicked"}

\* A step of caller c while no other caller is inside a call.
StepSeq(c) ==
    \/ Alone(c) /\ StartExecute(c)
    \/ Alone(c) /\ StartClaim(c)
    \/ Alone(c) /\ StartUnclaim(c)
    \/ Alone(c) /\ StartUpdate(c)
    \/ Alone(c) /\ StartFraction(c)
    \/ Alone(c) /\ ClaimEnter(c)
    \/ Alone(c) /\ ClaimRollShort(c)
    \/ Alone(c) /\ ClaimRollLong(c)
    \/ Alone(c) /\ ClaimCheck(c)
    \/ Alone(c) /\ ClaimLoad(c)
    \/ Alone(c) /\ ClaimStore(c)
    \/ Alone(c) /\ UnclaimEnter(c)
    \/ Alone(c) /\ UnclaimStore(c)
    \/ Alone(c) /\ FracEnter(c)
    \/ Alone(c) /\ FracCompute(c)
    \/ Alone(c) /\ ExecWake(c)
    \/ Alone(c) /\ ExecAuth(c)
    \/ Alone(c) /\ ExecSendError(c)
    \/ Alone(c) /\ ExecSendPolicyError(c)
    \/ Alone(c) /\ ExecSendResponse(c)
    \/ Alone(c) /\ UpdLock(c)
    \/ Alone(c) /\ UpdBody(c)
    \/ Alone(c) /\ UpdUnlock(c)
    \/ Alone(c) /\ Finish(c)

\* The calls are made one after the other.
NextSeq ==
    \/ Tick
    \/ \E c \in Callers : StepSeq(c)

SpecSeq == Init /\ [][NextSeq]_vars

\* The length of the clock's cycle below: MaxTicks + 1 short windows.
Cycle == (MaxTicks + 1) * TickStep

\* The wall clock advances without end. The instants of the model are
\* gone through again and again: when the clock passes its last instant
\* the origin of time moves on by one cycle, and with it the one instant a
\* caller keeps across steps of the clock, the end of its time.Sleep (0
\* once it is due).
TickLive ==
    /\ IF now < LastTime
       THEN /\ now' = now + TickStep
            /\ fr' = fr
       ELSE /\ now' = StartTime
            /\ fr' = [c \in Callers |->
                        [fr[c] EXCEPT !.wake =
                            IF @ > Cycle THEN @ - Cycle ELSE 0]]
    /\ UNCHANGED <<rl, readers, writer, calls, pc>>

\* A step of a caller that only makes requests, one request at a time.
StepLive(c) ==
    \/ Alone(c) /\ StartExecute(c)
    \/ Alone(c) /\ ClaimEnter(c)
    \/ Alone(c) /\ ClaimRollShort(c)
    \/ Alone(c) /\ ClaimRollLong(c)
    \/ Alone(c) /\ ClaimCheck(c)
    \/ Alone(c) /\ ClaimLoad(c)
    \/ Alone(c) /\ ClaimStore(c)
    \/ Alone(c) /\ UnclaimEnter(c)
    \/ Alone(c) /\ UnclaimStore(c)
    \/ Alone(c) /\ ExecWake(c)
    \/ Alone(c) /\ ExecAuth(c)
    \/ Alone(c) /\ ExecSendError(c)
    \/ Alone(c) /\ ExecSendPolicyError(c)
    \/ Alone(c) /\ ExecSendResponse(c)
    \/ Alone(c) /\ UpdLock(c)
    \/ Alone(c) /\ UpdBody(c)
    \/ Alone(c) /\ UpdUnlock(c)
    \/ Alone(c) /\ Finish(c)

NextLive ==
    \/ TickLive
    \/ \E c \in Callers : StepLive(c)

\* The first instant of the day after StartTime's.
Midnight == 2 * 86400

\* Wall-clock readings on and next to the boundaries of the windows: the
\* last second and the first second of a quarter of an hour and of a day.
ClockValues ==
    {StartTime, Midnight - TickStep - 1, Midnight - TickStep, Midnight - 1,
     Midnight}

\* The calls are made one after the other, starting at any of the clock
\* readings.
InitClock ==
    /\ rl \in StructLiterals
    /\ readers = {}
    /\ writer = NoCaller
    /\ now \in ClockValues
    /\ calls = 0
    /\ pc = [c \in Callers |-> "idle"]
    /\ fr = [c \in Callers |-> FrameInit]

SpecClock == InitClock /\ [][NextSeq]_vars

\* Requests are made one after the other and nothing else uses the
\* tracker, time passes, and a goroutine that can take a step is not held
\* up for ever by the scheduler.
SpecLive ==
    /\ Init
    /\ [][NextLive]_vars
    /\ WF_vars(TickLive)
    /\ \A c \in Callers : WF_vars(StepLive(c))

----------------------------------------------------------------------------
(* Properties *)

\* ExceededAndClaim has just returned to caller c: fr[c].ret is its result
\* and fr[c].entry the struct as the call found it.
Returned(c) ==
    \/ pc[c] \in {"exec_auth", "exec_sleep"}
    \/ pc[c] = "done" /\ fr[c].op = "claim"

\* Caller c is inside a method of the tracker (it holds rl.lock).
Inside(c) == c \in readers \/ writer = c

\* C1: never over-admit. With server data present, a claim that is granted
\* leaves usage + claimed within the limit of both windows, under every
\* interleaving of the callers.
C1_NeverOverAdmit ==
    [][\A c \in Callers :
          (ClaimStore(c) /\ rl.RequestTime # ZeroTime)
          => /\ rl'.UsageShort + rl'.UsageClaimed <= rl'.LimitShort
             /\ rl'.UsageLong + rl'.UsageClaimed <= rl'.LimitLong]_vars

\* C2: two callers are inside tracker methods at the same time only when
\* both are in the read operation FractionReached.
C2_MutualExclusion ==
    \A c, d \in Callers :
        (c # d /\ Inside(c) /\ Inside(d))
        => (pc[c] = "frac_compute" /\ pc[d] = "frac_compute")

C4_ClaimedNeverNegative == rl.UsageClaimed >= 0

\* C5: the decision rule of ExceededAndClaim, on the struct as the call
\* finds it: a stored short usage at or above a known short limit denies,
\* whatever the long window holds; room in the short window and a stored
\* long usage at or above a known long limit denies; room in both windows
\* grants and adds exactly 1 to claimed; a denial leaves claimed unchanged.
C5_DecisionRule ==
    \A c \in Callers :
        Returned(c) =>
            LET e == fr[c].entry
                roomShort == e.UsageShort + e.UsageClaimed < e.LimitShort
                roomLong == e.UsageLong + e.UsageClaimed < e.LimitLong
            IN  /\ (e.LimitShort > 0 /\ e.UsageShort >= e.LimitShort)
                     => fr[c].ret > 0
                /\ (roomShort /\ e.LimitLong > 0 /\ e.UsageLong >= e.LimitLong)
                     => fr[c].ret > 0
                /\ (roomShort /\ roomLong)
                     => (fr[c].ret = 0 /\ rl.UsageClaimed = e.UsageClaimed + 1)
                /\ fr[c].ret > 0 => rl.UsageClaimed = e.UsageClaimed

\* A header value that carries two comma-separated integer fields.
TwoIntegers(v) ==
    /\ Len(Split(v)) = 2
    /\ ~Atoi(Split(v)[1]).err
    /\ ~Atoi(Split(v)[2]).err

\* The unknown state of the tracker.
Unknown(r) ==
    /\ r.RequestTime = ZeroTime
    /\ r.LimitShort = 0 /\ r.LimitLong = 0
    /\ r.UsageShort = 0 /\ r.UsageLong = 0

\* C6: an updateRateLimits whose response lacks a quota header, or has a
\* quota header that is not two comma-separated integers, ends without a
\* panic and with the tracker in the unknown state.
C6_MalformedClears ==
    \A c \in Callers :
        LET h == fr[c].resp.header
        IN  (/\ pc[c] = "upd_unlock"
             /\ \/ ~TwoIntegers(HeaderGet(h, "X-ReadRatelimit-Limit"))
                \/ ~TwoIntegers(HeaderGet(h, "X-ReadRatelimit-Usage")))
            => (~fr[c].panicking /\ Unknown(rl))

\* C7: an updateRateLimits on a response whose X-Ratelimit-Limit and
\* X-Ratelimit-Usage headers carry two integers each ends with RequestTime
\* set and the four fields equal to the four values.
C7_ReconcileStores ==
    \A c \in Callers :
        LET lim == HeaderGet(fr[c].resp.header, "X-Ratelimit-Limit")
            use == HeaderGet(fr[c].resp.header, "X-Ratelimit-Usage")
        IN  (pc[c] = "upd_unlock" /\ TwoIntegers(lim) /\ TwoIntegers(use))
            => /\ rl.RequestTime # ZeroTime
               /\ rl.LimitShort = Atoi(Split(lim)[1]).val
               /\ rl.LimitLong = Atoi(Split(lim)[2]).val
               /\ rl.UsageShort = Atoi(Split(use)[1]).val
               /\ rl.UsageLong = Atoi(Split(use)[2]).val

\* usage/limit, a limit of 0 counting as the ratio 0.
RatioOrZero(u, l) == IF l = 0 THEN F32("num", 0, 1) ELSE F32Div(u, l)

\* The greater of the two ratios of r, a limit of 0 counting as the ratio 0.
MaxRatio(r) ==
    LET a == RatioOrZero(r.UsageShort, r.LimitShort)
        b == RatioOrZero(r.UsageLong, r.LimitLong)
    IN  IF a.n * b.d > b.n * a.d THEN a ELSE b

\* C8: FractionReached returns the greater of usage/limit of the two
\* windows, a ratio whose limit is 0 counting as 0.
C8_FractionIsMaxRatio ==
    \A c \in Callers :
        (pc[c] = "done" /\ fr[c].op = "fraction")
        => /\ fr[c].frac.kind = "num"
           /\ fr[c].frac.n * MaxRatio(fr[c].entry).d
                = MaxRatio(fr[c].entry).n * fr[c].frac.d

\* C9: window rollover. When ExceededAndClaim reaches its limit comparison,
\* each window whose key differed from the key of the call's time holds the
\* new key and usage 0, each window whose key did not differ is as the call
\* found it, and both limits, RequestTime and claimed are as the call found
\* them.
C9_WindowRollover ==
    \A c \in Callers :
        pc[c] = "claim_check" =>
            LET e == fr[c].entry
                keyShort == currentWindowShort(fr[c].tnow)
                keyLong == currentWindowLong(fr[c].tnow)
            IN  /\ rl.WindowShort = keyShort
                /\ rl.UsageShort =
                     (IF e.WindowShort # keyShort THEN 0 ELSE e.UsageShort)
                /\ rl.WindowLong = keyLong
                /\ rl.UsageLong =
                     (IF e.WindowLong # keyLong THEN 0 ELSE e.UsageLong)
                /\ rl.LimitShort = e.LimitShort
                /\ rl.LimitLong = e.LimitLong
                /\ rl.RequestTime = e.RequestTime
                /\ rl.UsageClaimed = e.UsageClaimed

\* C9 witness: a call at its limit comparison that found a short usage above
\* 0 under another short key, and the long key of its own day.
C9_Witness ==
    \E c \in Callers :
        /\ pc[c] = "claim_check"
        /\ fr[c].entry.WindowShort # currentWindowShort(fr[c].tnow)
        /\ fr[c].entry.WindowShort # EmptyString
        /\ fr[c].entry.UsageShort > 0
        /\ fr[c].entry.WindowLong = currentWindowLong(fr[c].tnow)
        /\ fr[c].entry.UsageLong > 0
        /\ rl.UsageShort = 0

\* C10: a request whose first attempt was answered 429 and whose second
\* attempt was answered 200 ends with claimed at the value it had when the
\* request started and no deferred Unclaim left, and what it returns is the
\* body of the 200 response with no error.
C10_RetryAccounting ==
    \A c \in Callers :
        (/\ pc[c] = "done"
         /\ fr[c].op = "execute"
         /\ fr[c].attempts = <<StatusTooManyRequests, 200>>)
        => /\ rl.UsageClaimed = fr[c].pre
           /\ fr[c].defers = 0
           /\ ~fr[c].panicking
           /\ fr[c].result = [data |-> "body", err |-> "nil"]

\* Caller c has returned from runRequestWithErrorHandler (its deferred
\* calls have run and no panic is unwinding it).
ExecuteReturned(c) ==
    pc[c] = "done" /\ fr[c].op = "execute" /\ ~fr[c].panicking

\* C11: a request holds at most one granted and unreleased claim at every
\* point of runRequestWithErrorHandler.
C11_OneReservation ==
    \A c \in Callers : fr[c].op = "execute" => fr[c].defers <= 1

\* C12: a 429 response is never surfaced. What a request returns is the
\* error of validateToken, the transport error, or the classification of
\* its last response (or the error httpClient.Do returned with it), which
\* is not a 429; every response before the last
\* outcome was a 429.
C12_NeverSurfaces429 ==
    \A c \in Callers :
        ExecuteReturned(c) =>
            LET a == fr[c].attempts
                n == Len(a)
            IN  /\ fr[c].result # NoResult
                /\ \/ /\ fr[c].result.err \in
                             {"validateToken error", "transport error"}
                      /\ \A i \in 1..n : a[i] = StatusTooManyRequests
                   \/ /\ n > 0
                      /\ a[n] # StatusTooManyRequests
                      /\ fr[c].result \in
                           {checkResponseForErrors(a[n], d) : d \in BOOLEAN}
                             \cup {[data |-> "nil",
                                    err |-> "redirect policy error"]}
                      /\ \A i \in 1..(n - 1) : a[i] = StatusTooManyRequests

\* C12 witness: a request answered 429 and then 500 has returned the
\* server error.
C12_Witness ==
    \E c \in Callers :
        /\ ExecuteReturned(c)
        /\ fr[c].attempts = <<StatusTooManyRequests, 500>>
        /\ fr[c].result.err = "server error"

\* C13: when runRequestWithErrorHandler is over, by whichever exit, every
\* claim it was granted has been released: no deferred Unclaim is left and,
\* the calls being made one after the other, claimed is at the value it had
\* when the call started.
C13_EveryExitReleases ==
    \A c \in Callers :
        (pc[c] = "done" /\ fr[c].op = "execute")
        => /\ fr[c].defers = 0
           /\ rl.UsageClaimed = fr[c].pre

\* C13 witness: a request that was granted two claims (answered 429, then
\* failed in transport) has returned the transport error.
C13_Witness ==
    \E c \in Callers :
        /\ ExecuteReturned(c)
        /\ fr[c].attempts = <<StatusTooManyRequests>>
        /\ fr[c].result.err = "transport error"
        /\ rl.UsageClaimed = fr[c].pre

\* C14: classification of the last response of a request that returns a
\* response's result: 2xx gives the body and no error, 3xx the redirect
\* error, 5xx the server error, 4xx the decoded application error, and
\* every status outside 2xx gives an error and no body.
C14_Classification ==
    \A c \in Callers :
        (/\ ExecuteReturned(c)
         /\ fr[c].attempts # <<>>
         /\ fr[c].attempts[Len(fr[c].attempts)] # StatusTooManyRequests)
        => LET st == fr[c].attempts[Len(fr[c].attempts)]
               res == fr[c].result
           IN  /\ st \in 200..299 => res = [data |-> "body", err |-> "nil"]
               /\ st \in 300..399 => res.err = "redirect error"
               /\ st \in 500..599 => res.err = "server error"
               /\ st \in 400..499 => res.err = "application error"
               /\ st \notin 200..299 => (res.err # "nil" /\ res.data = "nil")

\* C15: a denial of ExceededAndClaim at time t (epoch seconds, UTC) tells
\* the caller to wait 5 + 900 - (t mod 900) seconds when usage + claimed of
\* the short window is at its limit, whatever the long window holds, and
\* 5 + 86400 - (t mod 86400) seconds when only the long window is at its
\* limit.
C15_WaitSeconds ==
    [][\A c \in Callers :
          (ClaimCheck(c) /\ fr'[c].ret > 0)
          => LET t == fr[c].tnow
                 shortOut == rl.UsageShort + rl.UsageClaimed >= rl.LimitShort
                 longOut == rl.UsageLong + rl.UsageClaimed >= rl.LimitLong
             IN  /\ shortOut => fr'[c].ret = 5 + 900 - (t % 900)
                 /\ (longOut /\ ~shortOut)
                      => fr'[c].ret = 5 + 86400 - (t % 86400)]_vars

\* C15 witness: a caller was denied with both windows at their limit and
\* sleeps for less than a short window plus the margin.
C15_Witness ==
    \E c \in Callers :
        /\ pc[c] = "exec_sleep"
        /\ rl.RequestTime # ZeroTime
        /\ rl.UsageShort + rl.UsageClaimed >= rl.LimitShort
        /\ rl.UsageLong + rl.UsageClaimed >= rl.LimitLong
        /\ fr[c].ret > 0
        /\ fr[c].ret <= 5 + 900

\* C16: protocol order inside runRequestWithErrorHandler. A request about
\* to send has been granted one claim and has passed one validateToken for
\* this attempt and for each earlier one; and outside updateRateLimits every
\* response received so far has been through updateRateLimits, so before
\* the retry begins and before the claims are released.
C16_ProtocolOrder ==
    \A c \in Callers :
        fr[c].op = "execute" =>
            /\ pc[c] = "exec_send"
                 => /\ fr[c].defers = Len(fr[c].attempts) + 1
                    /\ fr[c].auths = Len(fr[c].attempts) + 1
            /\ pc[c] \notin {"upd_lock", "upd_body"}
                 => fr[c].updates = Len(fr[c].attempts)

\* The server data of r and s are the same.
SameServerData(r, s) ==
    /\ r.RequestTime = s.RequestTime
    /\ r.LimitShort = s.LimitShort /\ r.LimitLong = s.LimitLong
    /\ r.UsageShort = s.UsageShort /\ r.UsageLong = s.UsageLong

\* C17: a request goes back to ExceededAndClaim only out of its sleep after
\* a denial or after the updateRateLimits of a 429 response; and a request
\* that failed in validateToken or in transport ends with the limits, the
\* usages and RequestTime as they were at the failure.
C17_RetryOnlyOnDenialOr429 ==
    [][\A c \in Callers :
          /\ (/\ fr[c].op = "execute"
              /\ pc[c] # "claim_enter"
              /\ pc'[c] = "claim_enter")
             => \/ pc[c] = "exec_sleep"
                \/ /\ pc[c] = "upd_unlock"
                   /\ fr[c].resp.status = StatusTooManyRequests
          /\ (/\ fr'[c].op = "execute"
              /\ fr'[c].result.err \in {"validateToken error", "transport error"})
             => SameServerData(rl', fr'[c].entry)]_vars

\* C17 witness: with server data present, a request answered 429 has then
\* failed in validateToken and has returned that error.
C17_Witness ==
    \E c \in Callers :
        /\ ExecuteReturned(c)
        /\ fr[c].attempts = <<StatusTooManyRequests>>
        /\ fr[c].result.err = "validateToken error"
        /\ rl.RequestTime # ZeroTime
        /\ SameServerData(rl, fr[c].entry)

\* C18: a caller that goes to sleep after a denial holds rl.lock neither
\* as a reader nor as the writer, and the denial has changed neither
\* claimed nor the number of claims the caller holds.
C18_SleepHoldsNoLock ==
    [][\A c \in Callers :
          /\ pc'[c] = "exec_sleep" => (c \notin readers' /\ writer' # c)
          /\ (ClaimCheck(c) /\ fr'[c].ret > 0)
               => /\ rl'.UsageClaimed = rl.UsageClaimed
                  /\ fr'[c].defers = fr[c].defers]_vars

\* C18 witness: while one caller sleeps after a denial, another caller is
\* inside updateRateLimits with the write lock, its claim granted and its
\* request sent.
C18_Witness ==
    \E c, d \in Callers :
        /\ c # d
        /\ pc[c] = "exec_sleep"
        /\ fr[c].ret > 0
        /\ pc[d] = "upd_unlock"
        /\ writer = d

\* C19: a validateToken that is given a credential (no error of the token
\* source, a non-empty access token) calls refreshToken exactly when its
\* expires_at, in epoch seconds, is not more than 10 seconds after the
\* current time.
C19_RefreshOnlyExpired ==
    [][\A c \in Callers :
          (ExecAuth(c) /\ ~fr'[c].tok.err /\ fr'[c].tok.AccessToken # "")
          => (fr'[c].refreshed <=> ~(fr'[c].tok.ExpiresAt > now + 10))]_vars

\* C20: every request that has started runRequestWithErrorHandler
\* eventually leaves it, when time keeps passing, every goroutine keeps
\* being scheduled, and each request is answered 429 a bounded number of
\* times.
C20_EveryExecuteReturns ==
    \A c \in Callers : (fr[c].op = "execute") ~> (pc[c] = "done")

\* C21: usage reported by the server is discarded by ExceededAndClaim only
\* on a real window change. A tracker whose window keys are blank while
\* its RequestTime is set holds the usage of a response that was stored
\* after the keys were blanked; when ExceededAndClaim reaches its
\* comparison it has kept that usage in both windows.
C21_UsageKeptInSameWindow ==
    \A c \in Callers :
        (pc[c] = "claim_check" /\ fr[c].entry.RequestTime # ZeroTime) =>
            /\ fr[c].entry.WindowShort = EmptyString =>
                    rl.UsageShort = fr[c].entry.UsageShort
            /\ fr[c].entry.WindowLong = EmptyString =>
                    rl.UsageLong = fr[c].entry.UsageLong

\* C22: updateRateLimits never changes UsageClaimed. From taking the write
\* lock to releasing it, whether it stores the response, clears the
\* tracker or panics half way, every step of it leaves the counter as it
\* was, so the claims of calls in flight are still there afterwards.
C22_ReconcileKeepsClaimed ==
    [][\A c \in Callers :
          (UpdLock(c) \/ UpdBody(c) \/ UpdUnlock(c)) =>
              rl'.UsageClaimed = rl.UsageClaimed]_vars

\* A request has just cleared the tracker while its own claim and the
\* claim of another caller are held.
C22_Witness ==
    \E c \in Callers :
        /\ pc[c] = "upd_unlock"
        /\ fr[c].op = "execute"
        /\ fr[c].defers = 1
        /\ fr[c].resp.header = HdrNone
        /\ rl.RequestTime = ZeroTime
        /\ rl.WindowShort = EmptyString
        /\ rl.UsageClaimed = 2

\* C23: the result of ExceededAndClaim tells the outcome. Whenever the
\* tracker holds server data and one of the windows is used up the method
\* returns without the increment, and what it returns is between 6 and
\* 905 seconds for the short window and between 6 and 86405 seconds for
\* the long window, at every clock reading; it returns 0 only together
\* with the increment of UsageClaimed. A request therefore goes on to
\* send only with a result of 0 and one more claim, and sleeps only on a
\* positive result and no new claim.
C23_ResultEncodesOutcome ==
    [][\A c \in Callers :
          /\ ClaimCheck(c) =>
                LET shortOut == rl.UsageShort + rl.UsageClaimed >= rl.LimitShort
                    longOut == rl.UsageLong + rl.UsageClaimed >= rl.LimitLong
                    denied == rl.RequestTime # ZeroTime /\ (shortOut \/ longOut)
                IN  IF denied
                    THEN /\ pc'[c] # "claim_load"
                         /\ rl' = rl
                         /\ fr'[c].ret \in (IF shortOut THEN 6..905
                                            ELSE 6..86405)
                    ELSE pc'[c] = "claim_load"
          /\ ClaimStore(c) =>
                /\ fr'[c].ret = 0
                /\ rl'.UsageClaimed = rl.UsageClaimed + 1
          /\ (pc[c] # "exec_auth" /\ pc'[c] = "exec_auth") =>
                /\ fr'[c].ret = 0
                /\ rl'.UsageClaimed = rl.UsageClaimed + 1
                /\ fr'[c].defers = fr[c].defers + 1
          /\ (pc[c] # "exec_sleep" /\ pc'[c] = "exec_sleep") =>
                /\ fr'[c].ret > 0
                /\ rl'.UsageClaimed = rl.UsageClaimed
                /\ fr'[c].defers = fr[c].defers
                /\ fr'[c].wake = now + fr'[c].ret]_vars

\* A request is denied on the long window in the first second of a day
\* and sleeps for the longest wait there is.
C23_Witness ==
    \E c \in Callers :
        /\ pc[c] = "exec_sleep"
        /\ now = Midnight
        /\ fr[c].ret = 86405

====
